---- MODULE Spec2Model ----
(***************************************************************************)
(* A model of edr/edentities.py: the commander state EDCmdr with its       *)
(* wing / game-mode lifecycle and its "update if obsolete" operations,     *)
(* together with the vehicle-name canonicalizer EDVehicles.canonicalize    *)
(* and the timestamp wrapper edtime.EDTime it stamps its updates with.     *)
(*                                                                         *)
(* Python strings are sequences of one-character strings, so that          *)
(* str.lower() and the comparisons of the code are computed and not        *)
(* assumed.  Python's None is the value None below, which is no sequence   *)
(* of characters.                                                          *)
(***************************************************************************)
EXTENDS Integers, Sequences, FiniteSets, TLC

VARIABLES name, ship, star_system, place, security,
          game_mode, previous_mode, previous_wing, from_birth,
          timestamp, wing, friends,
          refs, phase, hist, last, ever_set, pure

obs_vars == <<ship, star_system, place, security, timestamp>>
life_vars == <<game_mode, previous_mode, previous_wing, from_birth, wing>>
vars == <<name, ship, star_system, place, security,
          game_mode, previous_mode, previous_wing, from_birth,
          timestamp, wing, friends, refs, phase, hist, last, ever_set,
          pure>>

(***************************************************************************)
(* Bounds of the model.                                                    *)
(***************************************************************************)
\* event times are 0..MaxTime
MaxTime == 2
\* vehicle names given to the ship operations have 1..MaxNameLen characters
MaxNameLen == 1
\* the location display is given star systems of at most MaxSystemLen
\* characters and places of at most MaxPlaceLen characters
MaxSystemLen == 1
MaxPlaceLen == 3

(***************************************************************************)
(* Values.                                                                 *)
(***************************************************************************)
None == <<"None">>

Solo == <<"S","o","l","o">>
Group == <<"G","r","o","u","p">>
Open == <<"O","p","e","n">>
GameModes == {Solo, Group, Open}

\* the commander identifiers that can be in a wing
Cmdrs == {"A", "B"}

Unknown == <<"U","n","k","n","o","w","n">>

Sol == <<"S","o","l">>
SolHub == <<"S","o","l"," ","H","u","b">>
LocationNames == {Sol, SolHub}

Anarchy == <<"$","G","A","l","A","X","Y","_","M","A","P","_","I","N","F","O","_","s","t","a","t","e","_","a","n","a","r","c","h","y",";">>
Lawless == <<"$","G","A","L","A","X","Y","_","M","A","P","_","I","N","F","O","_","s","t","a","t","e","_","l","a","w","l","e","s","s",";">>
SecurityStates == {Anarchy, Lawless}

NameAlphabet == {"a", "A"}
RECURSIVE SeqsOfLen(_, _)
SeqsOfLen(S, n) ==
    IF n = 0 THEN {<<>>}
    ELSE {Append(s, c) : s \in SeqsOfLen(S, n - 1), c \in S}
ShipNames == UNION {SeqsOfLen(NameAlphabet, n) : n \in 1..MaxNameLen}

Times == 0..MaxTime

(***************************************************************************)
(* str.lower()                                                             *)
(***************************************************************************)
UpperCase == <<"A","B","C","D","E","F","G","H","I","J","K","L","M",
               "N","O","P","Q","R","S","T","U","V","W","X","Y","Z">>
LowerCase == <<"a","b","c","d","e","f","g","h","i","j","k","l","m",
               "n","o","p","q","r","s","t","u","v","w","x","y","z">>

LowerChar(c) ==
    IF \E i \in DOMAIN UpperCase : UpperCase[i] = c
    THEN LowerCase[CHOOSE i \in DOMAIN UpperCase : UpperCase[i] = c]
    ELSE c

lower(s) == [i \in DOMAIN s |-> LowerChar(s[i])]

(***************************************************************************)
(* EDVehicles                                                              *)
(***************************************************************************)
\* data/shipnames.json: lower-cased names to canonical display names
CANONICAL_SHIP_NAMES ==
    [k \in {<<"a">>, <<"a","a">>} |->
        IF k = <<"a">> THEN <<"A">> ELSE <<"A","a">>]

\* canonicalize, for the table the class holds
canonicalize_with(table, new_name) ==
    IF new_name = None THEN Unknown
    ELSE IF lower(new_name) \in DOMAIN table
         THEN table[lower(new_name)]
         ELSE lower(new_name)

canonicalize(new_name) == canonicalize_with(CANONICAL_SHIP_NAMES, new_name)

\* the tables there can be for the names of the model: some lower-cased
\* names, each with a display name
ShipTables ==
    UNION {[keys -> ShipNames] : keys \in SUBSET {lower(n) : n \in ShipNames}}

(***************************************************************************)
(* edtime.EDTime: a point in time, read from and written to the journal's  *)
(* wire format.  The wire format of the model is one decimal digit         *)
(* followed by "Z"; anything else does not parse.                          *)
(***************************************************************************)
DigitChars == <<"0","1","2","3","4","5","6","7","8","9">>

as_journal_timestamp(t) == <<DigitChars[t + 1], "Z">>

is_journal_timestamp(w) ==
    /\ Len(w) = 2
    /\ w[2] = "Z"
    /\ \E i \in DOMAIN DigitChars : DigitChars[i] = w[1]

\* the value from_journal_timestamp stores; it raises when w does not parse
from_journal_timestamp(w) ==
    (CHOOSE i \in DOMAIN DigitChars : DigitChars[i] = w[1]) - 1

Malformed == {<<"x","Z">>}
JournalTimestamps == {as_journal_timestamp(t) : t \in Times} \cup Malformed

(***************************************************************************)
(* Which set objects are one and the same.  join_wing is given a           *)
(* collection of its caller: refs.others is what that collection holds,    *)
(* from the call until the commander takes another set object as its wing, *)
(* and refs.others_is_wing says that the commander's wing is that very     *)
(* object and not a copy of it.  refs.previous_is_wing says that wing and  *)
(* previous_wing are one object.  A set that is one object with the wing   *)
(* changes with it.                                                        *)
(***************************************************************************)
NoRefs ==
    [held |-> FALSE, others |-> {}, others_is_wing |-> FALSE,
     previous_is_wing |-> FALSE]

(***************************************************************************)
(* Records of the calls made, kept to state the claims.  hist holds the    *)
(* most recent lifecycle calls, each with the lifecycle fields before it:  *)
(* any other call starts it afresh, and inception / killed /               *)
(* resurrect extend it, to at most three calls.  last is the last update   *)
(* or setter call with the observation fields before it, and phase is      *)
(* which of inception / killed / resurrect came last.                      *)
(***************************************************************************)
NoCall == [op |-> "none"]

\* the field an accessor or update call assigns, if it assigns one
Assigned(op, ret) ==
    IF op = "set_ship" \/ (op = "update_ship_if_obsolete" /\ ret # "False")
    THEN {"ship"}
    ELSE IF op = "set_star_system"
            \/ (op = "update_star_system_if_obsolete" /\ ret # "False")
    THEN {"star_system"}
    ELSE IF op = "set_place"
            \/ (op = "update_place_if_obsolete" /\ ret # "False")
    THEN {"place"}
    ELSE {}

LifeState ==
    [game_mode |-> game_mode, wing |-> wing,
     previous_mode |-> previous_mode, previous_wing |-> previous_wing,
     from_birth |-> from_birth, phase |-> phase, friends |-> friends]

ObsState ==
    [ship |-> ship, star_system |-> star_system, place |-> place,
     security |-> security, timestamp |-> timestamp]

Push(h, e) == IF Len(h) = 3 THEN Append(Tail(h), e) ELSE Append(h, e)

PhaseCall(op) ==
    /\ hist' = Push(hist, [op |-> op, arg |-> None, pre |-> LifeState])
    /\ last' = NoCall
    /\ UNCHANGED <<ever_set, pure>>

WingCall(op, arg) ==
    /\ hist' = <<[op |-> op, arg |-> arg, pre |-> LifeState]>>
    /\ last' = NoCall
    /\ UNCHANGED <<ever_set, pure>>

\* a call that changes a set in place: what refs was is recorded too
InPlaceCall(op, arg) ==
    /\ hist' = <<[op |-> op, arg |-> arg, pre |-> LifeState, refs |-> refs]>>
    /\ last' = NoCall
    /\ UNCHANGED <<ever_set, pure>>

ObsCall(op, arg, ts, ret) ==
    /\ last' = [op |-> op, arg |-> arg, ts |-> ts, ret |-> ret, pre |-> ObsState]
    /\ hist' = <<>>
    /\ phase' = phase
    /\ ever_set' = ever_set \cup Assigned(op, ret)
    /\ UNCHANGED <<refs, pure>>

(***************************************************************************)
(* EDCmdr.__init__                                                         *)
(***************************************************************************)
Init ==
    /\ name = None
    /\ ship = None
    /\ star_system = None
    /\ place = None
    /\ security = None
    /\ game_mode = None
    /\ previous_mode = None
    /\ previous_wing = {}
    /\ from_birth = FALSE
    /\ timestamp \in Times
    /\ wing = {}
    /\ friends = {}
    /\ refs = NoRefs
    /\ phase = "none"
    /\ hist = <<>>
    /\ last = NoCall
    /\ ever_set = {}
    /\ pure = NoCall

(***************************************************************************)
(* EDCmdr: the wing / game-mode lifecycle                                  *)
(***************************************************************************)
\* inception as a full reset, the game mode cleared too
inception_clears_mode ==
    /\ from_birth' = TRUE
    /\ game_mode' = None
    /\ previous_mode' = None
    /\ previous_wing' = {}
    /\ wing' = {}
    /\ phase' = "inception"
    /\ PhaseCall("inception")
    /\ refs' = NoRefs
    /\ UNCHANGED <<name, friends, obs_vars>>

\* inception forgetting the friends as well
inception_forgets_friends ==
    /\ from_birth' = TRUE
    /\ previous_mode' = None
    /\ previous_wing' = {}
    /\ wing' = {}
    /\ friends' = {}
    /\ phase' = "inception"
    /\ PhaseCall("inception")
    /\ refs' = NoRefs
    /\ UNCHANGED <<name, game_mode, obs_vars>>

inception ==
    /\ from_birth' = TRUE
    /\ previous_mode' = None
    /\ previous_wing' = {}
    /\ wing' = {}
    /\ phase' = "inception"
    /\ PhaseCall("inception")
    /\ refs' = NoRefs
    /\ UNCHANGED <<name, friends, game_mode, obs_vars>>

\* killed without the snapshot of the wing
killed_drops_wing ==
    /\ previous_mode' = game_mode
    /\ previous_wing' = {}
    /\ game_mode' = None
    /\ wing' = {}
    /\ phase' = "killed"
    /\ PhaseCall("killed")
    /\ refs' = NoRefs
    /\ UNCHANGED <<name, friends, from_birth, obs_vars>>

\* killed leaving the current game mode in place
killed_keeps_mode ==
    /\ previous_mode' = game_mode
    /\ previous_wing' = wing
    /\ game_mode' = game_mode
    /\ wing' = {}
    /\ phase' = "killed"
    /\ PhaseCall("killed")
    /\ refs' = NoRefs
    /\ UNCHANGED <<name, friends, from_birth, obs_vars>>

\* killed keeping a snapshot that is already there
killed_keeps_snapshot ==
    /\ IF previous_mode # None \/ previous_wing # {}
       THEN UNCHANGED <<previous_mode, previous_wing>>
       ELSE previous_mode' = game_mode /\ previous_wing' = wing
    /\ game_mode' = None
    /\ wing' = {}
    /\ phase' = "killed"
    /\ PhaseCall("killed")
    /\ refs' = NoRefs
    /\ UNCHANGED <<name, friends, from_birth, obs_vars>>

killed ==
    /\ previous_mode' = game_mode
    /\ previous_wing' = wing
    /\ game_mode' = None
    /\ wing' = {}
    /\ phase' = "killed"
    /\ PhaseCall("killed")
    /\ refs' = NoRefs
    /\ UNCHANGED <<name, friends, from_birth, obs_vars>>

\* resurrect forgetting to clear the snapshot of the wing
resurrect_keeps_previous ==
    /\ game_mode' = previous_mode
    /\ wing' = previous_wing
    /\ previous_mode' = None
    /\ previous_wing' = previous_wing
    /\ phase' = "resurrect"
    /\ PhaseCall("resurrect")
    /\ refs' = NoRefs
    /\ UNCHANGED <<name, friends, from_birth, obs_vars>>

\* resurrect doing nothing when there is no snapshot to restore
resurrect_guarded ==
    /\ IF previous_mode = None /\ previous_wing = {}
       THEN UNCHANGED <<game_mode, wing>>
       ELSE game_mode' = previous_mode /\ wing' = previous_wing
    /\ previous_mode' = None
    /\ previous_wing' = {}
    /\ phase' = "resurrect"
    /\ PhaseCall("resurrect")
    /\ refs' = NoRefs
    /\ UNCHANGED <<name, friends, from_birth, obs_vars>>

resurrect ==
    /\ game_mode' = previous_mode
    /\ wing' = previous_wing
    /\ previous_mode' = None
    /\ previous_wing' = {}
    /\ phase' = "resurrect"
    /\ PhaseCall("resurrect")
    /\ refs' = NoRefs
    /\ UNCHANGED <<name, friends, from_birth, obs_vars>>

\* leave_wing as the return to the main menu, the game mode dropped too
leave_wing_clears_mode ==
    /\ wing' = {}
    /\ game_mode' = None
    /\ WingCall("leave_wing", None)
    /\ refs' = NoRefs
    /\ UNCHANGED <<name, friends, previous_mode, previous_wing,
                   from_birth, phase, obs_vars>>

leave_wing ==
    /\ wing' = {}
    /\ WingCall("leave_wing", None)
    /\ refs' = NoRefs
    /\ UNCHANGED <<name, friends, game_mode, previous_mode, previous_wing,
                   from_birth, phase, obs_vars>>

\* join_wing keeping the caller's collection itself, not a copy of it
join_wing_aliases(others) ==
    /\ wing' = others
    /\ refs' = [held |-> TRUE, others |-> others, others_is_wing |-> TRUE,
                previous_is_wing |-> FALSE]
    /\ WingCall("join_wing", others)
    /\ UNCHANGED <<name, friends, game_mode, previous_mode, previous_wing,
                   from_birth, phase, obs_vars>>

join_wing(others) ==
    /\ wing' = others
    /\ refs' = [held |-> TRUE, others |-> others, others_is_wing |-> FALSE,
                previous_is_wing |-> FALSE]
    /\ WingCall("join_wing", others)
    /\ UNCHANGED <<name, friends, game_mode, previous_mode, previous_wing,
                   from_birth, phase, obs_vars>>

\* add_to_wing replacing the wing by the newcomer
add_to_wing_replaces(other) ==
    /\ wing' = {other}
    /\ previous_wing' = IF refs.previous_is_wing THEN wing' ELSE previous_wing
    /\ refs' = IF refs.others_is_wing
               THEN [refs EXCEPT !.others = wing']
               ELSE refs
    /\ InPlaceCall("add_to_wing", other)
    /\ UNCHANGED <<name, friends, game_mode, previous_mode, from_birth,
                   phase, obs_vars>>

add_to_wing(other) ==
    /\ wing' = wing \cup {other}
    /\ previous_wing' = IF refs.previous_is_wing THEN wing' ELSE previous_wing
    /\ refs' = IF refs.others_is_wing
               THEN [refs EXCEPT !.others = wing']
               ELSE refs
    /\ InPlaceCall("add_to_wing", other)
    /\ UNCHANGED <<name, friends, game_mode, previous_mode, from_birth,
                   phase, obs_vars>>

\* game_mode is a public attribute, assigned by the callers
set_game_mode(mode) ==
    /\ game_mode' = mode
    /\ WingCall("set_game_mode", mode)
    /\ refs' = refs
    /\ UNCHANGED <<name, friends, wing, previous_mode, previous_wing,
                   from_birth, phase, obs_vars>>

\* the caller of join_wing adds an identifier to the collection it gave
others_add(other) ==
    /\ refs.held
    /\ refs' = [refs EXCEPT !.others = refs.others \cup {other}]
    /\ wing' = IF refs.others_is_wing THEN refs.others \cup {other} ELSE wing
    /\ previous_wing' = IF refs.others_is_wing /\ refs.previous_is_wing
                        THEN refs.others \cup {other}
                        ELSE previous_wing
    /\ InPlaceCall("others_add", other)
    /\ UNCHANGED <<name, friends, game_mode, previous_mode, from_birth,
                   phase, obs_vars>>

\* friends is a public attribute, a set its holders add to
add_friend(other) ==
    /\ friends' = friends \cup {other}
    /\ WingCall("add_friend", other)
    /\ UNCHANGED <<name, refs, wing, game_mode, previous_mode, previous_wing,
                   from_birth, phase, obs_vars>>

LifeNext ==
    \/ inception
    \/ killed
    \/ resurrect
    \/ leave_wing
    \/ \E others \in SUBSET Cmdrs : join_wing(others)
    \/ \E other \in Cmdrs : add_to_wing(other)
    \/ \E mode \in GameModes \cup {None} : set_game_mode(mode)

\* the lifecycle calls alone; they neither read nor write the time of
\* construction, which is taken to be 0
InitLife == Init /\ timestamp = 0

SpecLife == InitLife /\ [][LifeNext]_vars

\* the lifecycle calls, with what the holders of the wing's and the friends'
\* collections do to them
WingNext ==
    \/ LifeNext
    \/ \E other \in Cmdrs : others_add(other)
    \/ add_friend("A")

SpecWing == InitLife /\ [][WingNext]_vars

(***************************************************************************)
(* EDCmdr: the ship, location and timestamp accessors                      *)
(***************************************************************************)
\* the ship setter storing the name as given
set_ship_raw(new_ship) ==
    /\ ship' = new_ship
    /\ ObsCall("set_ship", new_ship, None, "None")
    /\ UNCHANGED <<name, friends, life_vars, star_system, place, security,
                   timestamp>>

set_ship(new_ship) ==
    /\ ship' = canonicalize(new_ship)
    /\ ObsCall("set_ship", new_ship, None, "None")
    /\ UNCHANGED <<name, friends, life_vars, star_system, place, security,
                   timestamp>>

set_timestamp(ed_timestamp) ==
    /\ IF is_journal_timestamp(ed_timestamp)
       THEN /\ timestamp' = from_journal_timestamp(ed_timestamp)
            /\ ObsCall("set_timestamp", None, ed_timestamp, "None")
       ELSE /\ timestamp' = timestamp
            /\ ObsCall("set_timestamp", None, ed_timestamp, "raised")
    /\ UNCHANGED <<name, friends, life_vars, ship, star_system, place,
                   security>>

set_star_system(new_star_system) ==
    /\ star_system' = new_star_system
    /\ ObsCall("set_star_system", new_star_system, None, "None")
    /\ UNCHANGED <<name, friends, life_vars, ship, place, security,
                   timestamp>>

set_place(new_place) ==
    /\ place' = new_place
    /\ ObsCall("set_place", new_place, None, "None")
    /\ UNCHANGED <<name, friends, life_vars, ship, star_system, security,
                   timestamp>>

location_security(ed_security_state) ==
    /\ security' = ed_security_state
    /\ ObsCall("location_security", ed_security_state, None, "None")
    /\ UNCHANGED <<name, friends, life_vars, ship, star_system, place,
                   timestamp>>

(***************************************************************************)
(* EDCmdr: the derived predicates                                          *)
(***************************************************************************)
is_friend_or_in_wing(interlocutor) ==
    interlocutor \in friends \/ interlocutor \in wing

\* has_partial_status asking for all three to be missing
has_partial_status_all ==
    ship = None /\ star_system = None /\ place = None

has_partial_status ==
    ship = None \/ star_system = None \/ place = None

(***************************************************************************)
(* EDCmdr: the updates.  Each one assigns the field first and then reads   *)
(* the event's timestamp, which raises when it does not parse.             *)
(***************************************************************************)
\* the ship update comparing with the name as given, not canonicalized
update_ship_compares_raw(new_ship, ed_timestamp) ==
    /\ IF ship = None \/ ship # new_ship
       THEN /\ ship' = canonicalize(new_ship)
            /\ IF is_journal_timestamp(ed_timestamp)
               THEN /\ timestamp' = from_journal_timestamp(ed_timestamp)
                    /\ ObsCall("update_ship_if_obsolete", new_ship,
                               ed_timestamp, "True")
               ELSE /\ timestamp' = timestamp
                    /\ ObsCall("update_ship_if_obsolete", new_ship,
                               ed_timestamp, "raised")
       ELSE /\ UNCHANGED <<ship, timestamp>>
            /\ ObsCall("update_ship_if_obsolete", new_ship, ed_timestamp,
                       "False")
    /\ UNCHANGED <<name, friends, life_vars, star_system, place, security>>

update_ship_if_obsolete(new_ship, ed_timestamp) ==
    /\ IF ship = None \/ ship # canonicalize(new_ship)
       THEN /\ ship' = canonicalize(new_ship)
            /\ IF is_journal_timestamp(ed_timestamp)
               THEN /\ timestamp' = from_journal_timestamp(ed_timestamp)
                    /\ ObsCall("update_ship_if_obsolete", new_ship,
                               ed_timestamp, "True")
               ELSE /\ timestamp' = timestamp
                    /\ ObsCall("update_ship_if_obsolete", new_ship,
                               ed_timestamp, "raised")
       ELSE /\ UNCHANGED <<ship, timestamp>>
            /\ ObsCall("update_ship_if_obsolete", new_ship, ed_timestamp,
                       "False")
    /\ UNCHANGED <<name, friends, life_vars, star_system, place, security>>

\* the star system update stamping the time of a repeated value too
update_star_system_stamps_always(new_star_system, ed_timestamp) ==
    /\ IF star_system = None \/ star_system # new_star_system
       THEN /\ star_system' = new_star_system
            /\ IF is_journal_timestamp(ed_timestamp)
               THEN /\ timestamp' = from_journal_timestamp(ed_timestamp)
                    /\ ObsCall("update_star_system_if_obsolete",
                               new_star_system, ed_timestamp, "True")
               ELSE /\ timestamp' = timestamp
                    /\ ObsCall("update_star_system_if_obsolete",
                               new_star_system, ed_timestamp, "raised")
       ELSE /\ star_system' = star_system
            /\ timestamp' = IF is_journal_timestamp(ed_timestamp)
                            THEN from_journal_timestamp(ed_timestamp)
                            ELSE timestamp
            /\ ObsCall("update_star_system_if_obsolete", new_star_system,
                       ed_timestamp, "False")
    /\ UNCHANGED <<name, friends, life_vars, ship, place, security>>

update_star_system_if_obsolete(new_star_system, ed_timestamp) ==
    /\ IF star_system = None \/ star_system # new_star_system
       THEN /\ star_system' = new_star_system
            /\ IF is_journal_timestamp(ed_timestamp)
               THEN /\ timestamp' = from_journal_timestamp(ed_timestamp)
                    /\ ObsCall("update_star_system_if_obsolete",
                               new_star_system, ed_timestamp, "True")
               ELSE /\ timestamp' = timestamp
                    /\ ObsCall("update_star_system_if_obsolete",
                               new_star_system, ed_timestamp, "raised")
       ELSE /\ UNCHANGED <<star_system, timestamp>>
            /\ ObsCall("update_star_system_if_obsolete", new_star_system,
                       ed_timestamp, "False")
    /\ UNCHANGED <<name, friends, life_vars, ship, place, security>>

\* the place update taking an unset place for an unset place as no change
update_place_skips_unset(new_place, ed_timestamp) ==
    /\ IF place # new_place
       THEN /\ place' = new_place
            /\ IF is_journal_timestamp(ed_timestamp)
               THEN /\ timestamp' = from_journal_timestamp(ed_timestamp)
                    /\ ObsCall("update_place_if_obsolete", new_place,
                               ed_timestamp, "True")
               ELSE /\ timestamp' = timestamp
                    /\ ObsCall("update_place_if_obsolete", new_place,
                               ed_timestamp, "raised")
       ELSE /\ UNCHANGED <<place, timestamp>>
            /\ ObsCall("update_place_if_obsolete", new_place, ed_timestamp,
                       "False")
    /\ UNCHANGED <<name, friends, life_vars, ship, star_system, security>>

update_place_if_obsolete(new_place, ed_timestamp) ==
    /\ IF place = None \/ place # new_place
       THEN /\ place' = new_place
            /\ IF is_journal_timestamp(ed_timestamp)
               THEN /\ timestamp' = from_journal_timestamp(ed_timestamp)
                    /\ ObsCall("update_place_if_obsolete", new_place,
                               ed_timestamp, "True")
               ELSE /\ timestamp' = timestamp
                    /\ ObsCall("update_place_if_obsolete", new_place,
                               ed_timestamp, "raised")
       ELSE /\ UNCHANGED <<place, timestamp>>
            /\ ObsCall("update_place_if_obsolete", new_place, ed_timestamp,
                       "False")
    /\ UNCHANGED <<name, friends, life_vars, ship, star_system, security>>

ObsNext ==
    \/ \E new_ship \in ShipNames \cup {None} : set_ship(new_ship)
    \/ \E w \in JournalTimestamps : set_timestamp(w)
    \/ \E n \in LocationNames \cup {None} : set_star_system(n)
    \/ \E n \in LocationNames \cup {None} : set_place(n)
    \/ \E sec \in SecurityStates \cup {None} : location_security(sec)
    \/ \E new_ship \in ShipNames \cup {None}, w \in JournalTimestamps :
           update_ship_if_obsolete(new_ship, w)
    \/ \E n \in LocationNames \cup {None}, w \in JournalTimestamps :
           update_star_system_if_obsolete(n, w)
    \/ \E n \in LocationNames \cup {None}, w \in JournalTimestamps :
           update_place_if_obsolete(n, w)

\* the updates and the accessors alone, on a commander constructed at any time
SpecObs == Init /\ [][ObsNext]_vars

(***************************************************************************)
(* The lifecycle calls, the updates and the friends together, each with a  *)
(* few arguments only.                                                     *)
(***************************************************************************)
AllNext ==
    \/ inception
    \/ killed
    \/ resurrect
    \/ leave_wing
    \/ join_wing({"A"})
    \/ add_to_wing("B")
    \/ set_game_mode(Open)
    \/ add_friend("A")
    \/ update_ship_if_obsolete(<<"a">>, as_journal_timestamp(1))
    \/ update_star_system_if_obsolete(Sol, as_journal_timestamp(2))
    \/ update_place_if_obsolete(SolHub, as_journal_timestamp(1))

SpecAll == InitLife /\ [][AllNext]_vars

(***************************************************************************)
(* Decimal numerals, as str() and format() write them.                     *)
(***************************************************************************)
RECURSIVE ToStr(_)
ToStr(n) ==
    IF n < 10 THEN <<DigitChars[n + 1]>>
    ELSE Append(ToStr(n \div 10), DigitChars[(n % 10) + 1])

\* "{:.1f}" of tenths / 10
OneDecimal(tenths) ==
    ToStr(tenths \div 10) \o <<".", DigitChars[(tenths % 10) + 1]>>

(***************************************************************************)
(* EDBounty.pretty_print.  A bounty goes up to 10 000 000 000 credits and  *)
(* beyond, so a value is written [m, r] for m * 1 000 000 + r credits,     *)
(* r < 1 000 000.  The value is an integer and "/" between integers is the *)
(* integer division; a "{:.1f}" rounds to the nearest tenth, and the       *)
(* values of the model are none of them half way between two tenths.       *)
(***************************************************************************)
Credits(v) == v.m * 1000000 + v.r

BountyValues ==
    {[m |-> mm, r |-> rr] :
        mm \in {0, 1, 9, 10, 999, 1000, 9999, 10000},
        rr \in {0, 1, 999, 1000, 1001, 9999, 10000, 999999}}

\* the tenths nearest to value / 1 000 000 000
TenthsOfBillions(v) ==
    (v.m \div 100) + (IF (v.m % 100) * 1000000 + v.r >= 50000000 THEN 1 ELSE 0)

pretty_print(value) ==
    IF value.m >= 10000
    THEN ToStr(value.m \div 1000) \o <<" ", "b">>
    ELSE IF value.m >= 1000
    THEN OneDecimal(TenthsOfBillions(value)) \o <<" ", "b">>
    ELSE IF value.m >= 10
    THEN ToStr(value.m) \o <<" ", "m">>
    ELSE IF Credits(value) > 1000000
    THEN OneDecimal((Credits(value) + 50000) \div 100000) \o <<" ", "m">>
    ELSE IF Credits(value) >= 10000
    THEN ToStr(Credits(value) \div 1000) \o <<" ", "k">>
    ELSE IF Credits(value) >= 1000
    THEN OneDecimal((Credits(value) + 50) \div 100) \o <<" ", "k">>
    ELSE ToStr(Credits(value))

(***************************************************************************)
(* EDLocation.pretty_print                                                 *)
(***************************************************************************)
LocAlphabet == {"S", " ", "H"}
SystemStrings == UNION {SeqsOfLen(LocAlphabet, n) : n \in 0..MaxSystemLen}
PlaceStrings == UNION {SeqsOfLen(LocAlphabet, n) : n \in 0..MaxPlaceLen}

startswith(s, prefix) ==
    Len(s) >= Len(prefix) /\ SubSeq(s, 1, Len(prefix)) = prefix

Occurs(s, sep, i) ==
    i + Len(sep) - 1 <= Len(s) /\ SubSeq(s, i, i + Len(sep) - 1) = sep

\* s.partition(sep)[2]: what follows the first sep in s, "" when there is none
partition_after(s, sep) ==
    IF \E i \in 1..Len(s) : Occurs(s, sep, i)
    THEN LET first == CHOOSE i \in 1..Len(s) :
                         /\ Occurs(s, sep, i)
                         /\ \A j \in 1..(i - 1) : ~Occurs(s, sep, j)
         IN  SubSeq(s, first + Len(sep), Len(s))
    ELSE <<>>

\* the display of a place that begins with the system's name, without the
\* space asked for after it
pretty_print_location_any_prefix(system, new_place) ==
    IF new_place # None /\ new_place # <<>> /\ new_place # system
    THEN IF startswith(new_place, system)
         THEN system \o <<",", " ">> \o partition_after(new_place, system)
         ELSE system \o <<",", " ">> \o new_place
    ELSE system

\* a place is shown when it is not None, not empty and not the system
pretty_print_location(system, new_place) ==
    IF new_place # None /\ new_place # <<>> /\ new_place # system
    THEN IF startswith(new_place, system \o <<" ">>)
         THEN system \o <<",", " ">>
                     \o partition_after(new_place, system \o <<" ">>)
         ELSE system \o <<",", " ">> \o new_place
    ELSE system

(***************************************************************************)
(* The functions above, called on their own.                               *)
(***************************************************************************)
rest_vars == <<name, ship, star_system, place, security,
               game_mode, previous_mode, previous_wing, from_birth,
               timestamp, wing, friends, refs, phase, hist, last, ever_set>>

call_canonicalize(table, new_name) ==
    /\ pure' = [op |-> "canonicalize", table |-> table, name |-> new_name,
                out |-> canonicalize_with(table, new_name)]
    /\ UNCHANGED rest_vars

call_pretty_print(value) ==
    /\ pure' = [op |-> "pretty_print", value |-> value,
                out |-> pretty_print(value)]
    /\ UNCHANGED rest_vars

call_pretty_print_location(system, new_place) ==
    /\ pure' = [op |-> "pretty_print_location", system |-> system,
                place |-> new_place,
                out |-> pretty_print_location(system, new_place)]
    /\ UNCHANGED rest_vars

PureNext ==
    \/ \E table \in ShipTables, n \in ShipNames \cup {None} :
           call_canonicalize(table, n)
    \/ \E value \in BountyValues : call_pretty_print(value)
    \/ \E system \in SystemStrings, p \in PlaceStrings \cup {None} :
           call_pretty_print_location(system, p)

SpecPure == InitLife /\ [][PureNext]_vars

(***************************************************************************)
(* The lifecycle claims                                                    *)
(***************************************************************************)
Populated == previous_mode # None \/ previous_wing # {}

\* the n-th most recent lifecycle call on record (1 is the last one)
Recent(n) == hist[Len(hist) + 1 - n]

LastLifeCall(op) == Len(hist) >= 1 /\ Recent(1).op = op

SameModeAndWings(s) ==
    /\ game_mode = s.game_mode
    /\ wing = s.wing
    /\ previous_mode = s.previous_mode
    /\ previous_wing = s.previous_wing

\* C1 as stated: the previous-snapshot fields are populated if and only if
\* the most recent of inception / killed / resurrect was killed.
C1_Original == Populated <=> phase = "killed"

\* C1 amended: the previous-snapshot fields are populated only if the most
\* recent of inception / killed / resurrect was killed (after a killed() with
\* the game mode unset and the wing empty they are not populated).
C1_Amended == Populated => phase = "killed"

C1_Witness ==
    /\ phase = "killed"
    /\ previous_mode = Open
    /\ previous_wing = {"A", "B"}

\* C4: killed() followed immediately by resurrect(), from an Active state
\* with empty previous-snapshot fields, gives back the game mode and the wing
\* and leaves the previous-snapshot fields empty.
C4_RoundTrip ==
    (/\ Len(hist) >= 2
     /\ Recent(1).op = "resurrect"
     /\ Recent(2).op = "killed"
     /\ Recent(2).pre.game_mode \in GameModes
     /\ Recent(2).pre.previous_mode = None
     /\ Recent(2).pre.previous_wing = {})
    => SameModeAndWings(Recent(2).pre)

C4_Witness ==
    /\ Len(hist) >= 2
    /\ Recent(1).op = "resurrect"
    /\ Recent(2).op = "killed"
    /\ Recent(2).pre.game_mode = Open
    /\ Recent(2).pre.wing = {"A", "B"}
    /\ Recent(2).pre.previous_mode = None
    /\ Recent(2).pre.previous_wing = {}
    /\ game_mode = Open
    /\ wing = {"A", "B"}

\* C5 as stated: resurrect() called when the most recent of inception /
\* killed / resurrect was not killed leaves the game mode, the wing and the
\* previous-snapshot fields unchanged.
C5_Original ==
    (LastLifeCall("resurrect") /\ Recent(1).pre.phase # "killed")
    => SameModeAndWings(Recent(1).pre)

\* C5 amended: resurrect() called when the most recent of inception /
\* killed / resurrect was not killed leaves the game mode unset, the wing
\* empty and the previous-snapshot fields empty; it changes nothing exactly
\* when the game mode was already unset and the wing already empty.
C5_Amended ==
    (LastLifeCall("resurrect") /\ Recent(1).pre.phase # "killed")
    => /\ game_mode = None
       /\ wing = {}
       /\ previous_mode = None
       /\ previous_wing = {}
       /\ SameModeAndWings(Recent(1).pre)
            <=> (Recent(1).pre.game_mode = None /\ Recent(1).pre.wing = {})

C5_Witness ==
    /\ LastLifeCall("resurrect")
    /\ Recent(1).pre.phase # "killed"
    /\ Recent(1).pre.game_mode = Open
    /\ Recent(1).pre.wing = {"A", "B"}
    /\ game_mode = None
    /\ wing = {}

\* C6 as stated: after inception() the game mode is unset, the wing is
\* empty, the previous-snapshot fields are empty and from_birth is true.
C6_Original ==
    LastLifeCall("inception")
    => /\ game_mode = None
       /\ wing = {}
       /\ previous_mode = None
       /\ previous_wing = {}
       /\ from_birth = TRUE

\* C6 amended: after inception() the wing is empty, the previous-snapshot
\* fields are empty and from_birth is true, and the game mode is the one
\* held before the call.
C6_Amended ==
    LastLifeCall("inception")
    => /\ game_mode = Recent(1).pre.game_mode
       /\ wing = {}
       /\ previous_mode = None
       /\ previous_wing = {}
       /\ from_birth = TRUE

C6_Witness ==
    /\ LastLifeCall("inception")
    /\ Recent(1).pre.game_mode = Open
    /\ Recent(1).pre.wing = {"A", "B"}
    /\ game_mode = Open
    /\ wing = {}

\* C9: from an Active state with a set game mode and a non-empty wing,
\* killed(); killed(); resurrect() ends with the game mode unset, the wing
\* empty and the previous-snapshot fields empty.
C9_DoubleKilled ==
    (/\ Len(hist) = 3
     /\ Recent(3).op = "killed"
     /\ Recent(2).op = "killed"
     /\ Recent(1).op = "resurrect"
     /\ Recent(3).pre.game_mode \in GameModes
     /\ Recent(3).pre.wing # {})
    => /\ game_mode = None
       /\ wing = {}
       /\ previous_mode = None
       /\ previous_wing = {}

C9_Witness ==
    /\ Len(hist) = 3
    /\ Recent(3).op = "killed"
    /\ Recent(2).op = "killed"
    /\ Recent(1).op = "resurrect"
    /\ Recent(3).pre.game_mode = Open
    /\ Recent(3).pre.wing = {"A", "B"}
    /\ Recent(2).pre.previous_mode = Open
    /\ game_mode = None

\* C10: killed() sets previous_mode to the game mode held before the call
\* and previous_wing to the wing held before the call, and leaves the game
\* mode unset and the wing empty.
C10_Killed ==
    LastLifeCall("killed")
    => /\ previous_mode = Recent(1).pre.game_mode
       /\ previous_wing = Recent(1).pre.wing
       /\ game_mode = None
       /\ wing = {}

C10_Witness ==
    /\ LastLifeCall("killed")
    /\ Recent(1).pre.game_mode = Solo
    /\ Recent(1).pre.wing = {"B"}
    /\ previous_mode = Solo
    /\ previous_wing = {"B"}

(***************************************************************************)
(* The update claims                                                       *)
(***************************************************************************)
UpdateOps == {"update_ship_if_obsolete", "update_star_system_if_obsolete",
              "update_place_if_obsolete"}

LastUpdate == last.op \in UpdateOps

SameTrackedFields(s) ==
    /\ ship = s.ship
    /\ star_system = s.star_system
    /\ place = s.place

\* C2 as stated: the stored timestamp after each update call is greater
\* than or equal to the stored timestamp before it.
C2_Original == LastUpdate => timestamp >= last.pre.timestamp

\* C2 amended: after each update call the stored timestamp is either the one
\* stored before or, when the call returned true, the event's timestamp; so
\* it does not regress when the event's timestamp is not older than the
\* stored one.
C2_Amended ==
    LastUpdate
    => /\ \/ timestamp = last.pre.timestamp
          \/ /\ last.ret = "True"
             /\ timestamp = from_journal_timestamp(last.ts)
       /\ (\/ ~is_journal_timestamp(last.ts)
           \/ from_journal_timestamp(last.ts) >= last.pre.timestamp)
          => timestamp >= last.pre.timestamp

C2_Witness ==
    /\ LastUpdate
    /\ last.ret = "True"
    /\ last.pre.timestamp = 1
    /\ timestamp = 2

\* C3: an update call that leaves ship, star_system and place as they were
\* leaves the stored timestamp as it was.
C3_NoChangeNoStamp ==
    (LastUpdate /\ SameTrackedFields(last.pre))
    => timestamp = last.pre.timestamp

\* C7: an update call whose event timestamp does not parse leaves ship,
\* star_system, place and the stored timestamp as they were.
C7_FailsAtomically ==
    (LastUpdate /\ last.ret = "raised")
    => (SameTrackedFields(last.pre) /\ timestamp = last.pre.timestamp)

\* C8: update_ship_if_obsolete(ship, ts), ts a journal timestamp, returns
\* true exactly when the current ship is unset or differs from
\* canonicalize(ship); on true the ship is canonicalize(ship) and the stored
\* timestamp is ts; on false the ship and the stored timestamp are unchanged.
C8_UpdateShip ==
    (last.op = "update_ship_if_obsolete" /\ is_journal_timestamp(last.ts))
    => /\ last.ret \in {"True", "False"}
       /\ last.ret = "True"
            <=> (\/ last.pre.ship = None
                 \/ last.pre.ship # canonicalize(last.arg))
       /\ last.ret = "True"
            => /\ ship = canonicalize(last.arg)
               /\ timestamp = from_journal_timestamp(last.ts)
               /\ as_journal_timestamp(timestamp) = last.ts
       /\ last.ret = "False"
            => /\ ship = last.pre.ship
               /\ timestamp = last.pre.timestamp

\* a repeated value, given in another case, is no change
C8_Witness ==
    /\ last.op = "update_ship_if_obsolete"
    /\ is_journal_timestamp(last.ts)
    /\ last.arg = <<"a">>
    /\ last.pre.ship = <<"A">>
    /\ last.ret = "False"
    /\ from_journal_timestamp(last.ts) # timestamp

(***************************************************************************)
(* The wing claims                                                         *)
(***************************************************************************)
\* C14: after join_wing(others) the wing is exactly the given set, whatever
\* it was before; a later change of the caller's collection does not change
\* the wing, and a later add_to_wing does not change the caller's collection.
C14_JoinWing ==
    /\ LastLifeCall("join_wing")
         => (wing = Recent(1).arg /\ refs.others = Recent(1).arg)
    /\ LastLifeCall("others_add")
         => /\ wing = Recent(1).pre.wing
            /\ refs.others = Recent(1).refs.others \cup {Recent(1).arg}
    /\ (LastLifeCall("add_to_wing") /\ Recent(1).refs.held)
         => refs.others = Recent(1).refs.others

C14_Witness ==
    /\ LastLifeCall("others_add")
    /\ Recent(1).arg = "B"
    /\ Recent(1).refs.others = {"A"}
    /\ Recent(1).pre.wing = {"A"}
    /\ wing = {"A"}
    /\ refs.others = {"A", "B"}

\* C15: leave_wing() leaves the wing empty and does not change the game
\* mode, previous_mode or previous_wing.
C15_LeaveWing ==
    LastLifeCall("leave_wing")
    => /\ wing = {}
       /\ game_mode = Recent(1).pre.game_mode
       /\ previous_mode = Recent(1).pre.previous_mode
       /\ previous_wing = Recent(1).pre.previous_wing

C15_Witness ==
    /\ LastLifeCall("leave_wing")
    /\ Recent(1).pre.wing = {"A", "B"}
    /\ wing = {}
    /\ game_mode = Open
    /\ previous_mode = Solo
    /\ previous_wing = {"A"}

\* C17: after add_to_wing(other) the wing is the wing before it with other
\* added, and previous_wing, previous_mode, the game mode and friends are
\* unchanged, also right after killed() and right after resurrect().
C17_AddToWing ==
    LastLifeCall("add_to_wing")
    => /\ wing = Recent(1).pre.wing \cup {Recent(1).arg}
       /\ previous_wing = Recent(1).pre.previous_wing
       /\ previous_mode = Recent(1).pre.previous_mode
       /\ game_mode = Recent(1).pre.game_mode
       /\ friends = Recent(1).pre.friends

\* the call made in the state killed() leaves behind
C17_Witness ==
    /\ LastLifeCall("add_to_wing")
    /\ Recent(1).arg = "B"
    /\ Recent(1).pre.phase = "killed"
    /\ Recent(1).pre.game_mode = None
    /\ Recent(1).pre.wing = {}
    /\ Recent(1).pre.previous_wing = {"A"}
    /\ previous_wing = {"A"}
    /\ previous_mode = Open
    /\ wing = {"B"}
    /\ friends = {"A"}

(***************************************************************************)
(* The claims on the observed ship and location                            *)
(***************************************************************************)
\* C11: has_partial_status() is true for a freshly constructed commander;
\* it is false only if ship, star_system and place have each been assigned
\* by an earlier call, and it is true whenever one of the three is unset.
C11_PartialStatus ==
    /\ last = NoCall => has_partial_status
    /\ ~has_partial_status => ever_set = {"ship", "star_system", "place"}
    /\ (ship = None \/ star_system = None \/ place = None)
         => has_partial_status

C11_Witness ==
    /\ ~has_partial_status
    /\ ship = <<"A">>
    /\ star_system = Sol
    /\ place = SolHub

\* C16: update_star_system_if_obsolete and update_place_if_obsolete, given a
\* journal timestamp, return true exactly when the field is unset or differs
\* from the new value; on true the field is the new value and the stored
\* timestamp the event's; on false the field and the stored timestamp are
\* unchanged.  Neither changes the ship, the security or the other one's
\* field.
C16_UpdateLocation ==
    /\ (last.op = "update_star_system_if_obsolete"
        /\ is_journal_timestamp(last.ts))
       => /\ last.ret \in {"True", "False"}
          /\ last.ret = "True"
               <=> (\/ last.pre.star_system = None
                    \/ last.pre.star_system # last.arg)
          /\ last.ret = "True"
               => /\ star_system = last.arg
                  /\ timestamp = from_journal_timestamp(last.ts)
          /\ last.ret = "False"
               => /\ star_system = last.pre.star_system
                  /\ timestamp = last.pre.timestamp
          /\ ship = last.pre.ship
          /\ place = last.pre.place
          /\ security = last.pre.security
    /\ (last.op = "update_place_if_obsolete"
        /\ is_journal_timestamp(last.ts))
       => /\ last.ret \in {"True", "False"}
          /\ last.ret = "True"
               <=> (\/ last.pre.place = None
                    \/ last.pre.place # last.arg)
          /\ last.ret = "True"
               => /\ place = last.arg
                  /\ timestamp = from_journal_timestamp(last.ts)
          /\ last.ret = "False"
               => /\ place = last.pre.place
                  /\ timestamp = last.pre.timestamp
          /\ ship = last.pre.ship
          /\ star_system = last.pre.star_system
          /\ security = last.pre.security

C16_Witness ==
    /\ last.op = "update_place_if_obsolete"
    /\ is_journal_timestamp(last.ts)
    /\ last.ret = "True"
    /\ last.pre.place = Sol
    /\ last.arg = SolHub
    /\ place = SolHub
    /\ star_system = Sol
    /\ ship = <<"A">>
    /\ security = Anarchy
    /\ timestamp # last.pre.timestamp

\* the values canonicalize gives for the names of the model
CanonicalNames == {canonicalize(n) : n \in ShipNames \cup {None}}

\* C19: the ship is unset or a value of canonicalize, and once a call has
\* assigned it, it is never unset again; star_system and place go back to
\* unset when their update is given an unset value.
C19_ShipStaysSet ==
    /\ ship = None \/ ship \in CanonicalNames
    /\ "ship" \in ever_set => ship # None
    /\ (/\ last.op = "update_star_system_if_obsolete"
        /\ last.arg = None
        /\ last.pre.star_system # None)
       => star_system = None
    /\ (/\ last.op = "update_place_if_obsolete"
        /\ last.arg = None
        /\ last.pre.place # None)
       => place = None

C19_Witness ==
    /\ last.op = "update_star_system_if_obsolete"
    /\ last.arg = None
    /\ last.pre.star_system = Sol
    /\ last.ret = "True"
    /\ star_system = None
    /\ "star_system" \in ever_set
    /\ ship = Unknown

(***************************************************************************)
(* The lifecycle and the observations together                             *)
(***************************************************************************)
LifeOps == {"inception", "killed", "resurrect", "leave_wing", "join_wing",
            "add_to_wing"}

\* the step is one of the six lifecycle calls
LifeStep == Len(hist') >= 1 /\ hist'[Len(hist')].op \in LifeOps

\* the step is one of the three update calls
UpdateStep == last'.op \in UpdateOps

\* C20: a lifecycle call changes none of ship, star_system, place, security,
\* the stored timestamp, name and friends; an update call changes none of
\* game_mode, previous_mode, wing, previous_wing, friends and from_birth; so
\* is_friend_or_in_wing stays true of every friend over these calls.
C20_Independent ==
    [][/\ LifeStep
            => UNCHANGED <<ship, star_system, place, security, timestamp,
                           name, friends>>
       /\ UpdateStep
            => UNCHANGED <<game_mode, previous_mode, wing, previous_wing,
                           friends, from_birth>>
       /\ (LifeStep \/ UpdateStep)
            => \A id \in friends : (is_friend_or_in_wing(id))'
      ]_vars

C20_Witness ==
    /\ LastLifeCall("killed")
    /\ Recent(1).pre.wing = {"A", "B"}
    /\ wing = {}
    /\ friends = {"A"}
    /\ is_friend_or_in_wing("A")
    /\ ship = <<"A">>
    /\ star_system = Sol
    /\ place = SolHub
    /\ timestamp = 2

(***************************************************************************)
(* The claims on the functions                                             *)
(***************************************************************************)
\* C12: canonicalize(canonicalize(name)) = canonicalize(name), for every
\* name, the unset one included, and every lookup table.
C12_Idempotent ==
    pure.op = "canonicalize"
    => canonicalize_with(pure.table, pure.out) = pure.out

\* C13: the bounty is written as in the boundary table: 999 as "999",
\* 1000 as "1.0 k", 10000 as "10 k", 1000000 as "1.0 m", 1000001 as "1.0 m",
\* 10000000 as "10 m", 1000000000 as "1.0 b", 10000000000 as "10 b".
C13_BoundaryTable ==
    pure.op = "pretty_print"
    => /\ pure.value = [m |-> 0, r |-> 999] => pure.out = <<"9","9","9">>
       /\ pure.value = [m |-> 0, r |-> 1000]
            => pure.out = <<"1",".","0"," ","k">>
       /\ pure.value = [m |-> 0, r |-> 10000]
            => pure.out = <<"1","0"," ","k">>
       /\ pure.value = [m |-> 1, r |-> 0]
            => pure.out = <<"1",".","0"," ","m">>
       /\ pure.value = [m |-> 1, r |-> 1]
            => pure.out = <<"1",".","0"," ","m">>
       /\ pure.value = [m |-> 10, r |-> 0]
            => pure.out = <<"1","0"," ","m">>
       /\ pure.value = [m |-> 1000, r |-> 0]
            => pure.out = <<"1",".","0"," ","b">>
       /\ pure.value = [m |-> 10000, r |-> 0]
            => pure.out = <<"1","0"," ","b">>

====
